---------------------------- MODULE Spec2Model ----------------------------
(***************************************************************************)
(* The Clean cog of bot/exts/moderation/clean.py as a state machine.       *)
(*                                                                         *)
(* The cog runs on one asyncio event loop: a coroutine runs without        *)
(* interruption from one `await` to the next.  Every action below is       *)
(* therefore one such run: a command handler from its invocation to its    *)
(* first await, or a suspended coroutine from the return of the call it    *)
(* awaits to its next await (or to its end).  The external calls           *)
(* (channel.history, channel.delete_messages, message.delete, ctx.send,    *)
(* mod_log.upload_log, ...) are opaque: the model chooses their outcome.   *)
(*                                                                         *)
(* The framework calls cog_command_error for every exception a command of  *)
(* the cog raises, without suspending in between, so a raising step        *)
(* includes the handler's assignment.                                      *)
(***************************************************************************)
EXTENDS Integers, Sequences, FiniteSets, TLC

\* --------------------------------------------------------------- bounds
\* Coroutine slots: how many clean invocations may be alive at once.
MaxSessions == 2
\* The clock takes the values TwoWeeksMs + 1 .. TwoWeeksMs + MaxClock.
MaxClock == 2
\* Largest number of young messages of c1 in the cache of SpecBulk.
MaxBulkN == 203
\* the activations of Snekbox.run_eval that can be alive at once
MaxRuns == 3

\* ------------------------------------------------------ program constants
\* if len(to_delete) == 100
BulkCap == 100
\* 14 * 24 * 60 * 60 seconds, in the milliseconds of a snowflake
TwoWeeksMs == 1209600000
\* message.id is (milliseconds since the platform epoch) << 22 | counter
SnowflakeShift == 22
\* CleanMessages.message_limit (bot.constants, read at clean.py:99)
message_limit == 10000
\* DEFAULT_TRAVERSE
DEFAULT_TRAVERSE == 10

Sessions == 1..MaxSessions

VARIABLES
    cleaning,         \* Clean.cleaning
    sess,             \* per slot: the coroutine frame of _clean_messages and what it did
    now,              \* time.time(): [ms, us] since the platform epoch
    history,          \* channel -> the messages channel.history yields, in its order
    cached_messages,  \* bot.cached_messages, in iteration order
    jobs,             \* the keys of Snekbox.jobs: the author ids with a job
    runs              \* per slot: the coroutine frame of Snekbox.run_eval

vars == <<cleaning, sess, now, history, cached_messages, jobs, runs>>

\* ------------------------------------------------------------ the world
Pow2(n) == IF n = 0 THEN 1 ELSE 2 * 2 ^ (n - 1)

\* A message created `ts` ms after the platform epoch.
Msg(ts, ctr, ch, author, bot) ==
    [id |-> ts * Pow2(SnowflakeShift) + ctr, channel |-> ch, author |-> author,
     bot |-> bot, created_at |-> ts, content |-> "text"]

Channels == {"c1", "c2"}
\* ctx.guild.channels filtered to TextChannel, in guild order
GuildTextChannels == <<"c1", "c2">>

Min(a, b) == IF a < b THEN a ELSE b

SeqToSet(q) == {q[i] : i \in 1..Len(q)}

RECURSIVE SelectSeqBy(_, _)
\* q without the elements outside the set `keep`, order preserved
SelectSeqBy(q, keep) ==
    IF q = <<>> THEN <<>>
    ELSE IF Head(q) \in keep THEN <<Head(q)>> \o SelectSeqBy(Tail(q), keep)
    ELSE SelectSeqBy(Tail(q), keep)

RECURSIVE Flatten(_)
Flatten(qq) == IF qq = <<>> THEN <<>> ELSE Head(qq) \o Flatten(Tail(qq))

\* ------------------------------------------------------------ arguments
\* A CleanLimit: nothing, a Message, or a datetime (Age / ISODateTime).
NoLimit == [kind |-> "none", t |-> 0, channel |-> "-"]
MessageLimit(m) == [kind |-> "message", t |-> m.created_at, channel |-> m.channel]
TimeLimit(t) == [kind |-> "time", t |-> t, channel |-> "-"]

\* CleanChannels: None, the literal "*", or a list of channels.
NoChannels == [kind |-> "none", list |-> <<>>]
AllChannels == [kind |-> "all", list |-> <<>>]
ChannelList(q) == [kind |-> "list", list |-> q]

\* re.Pattern or None; a pattern is known by the contents it finds a match in.
NoRegex == [kind |-> "none", finds |-> {}]

\* The arguments of one _clean_messages call, with the ctx it runs in.
Args(traverse, channels, bots_only, users, regex, first, second, use_cache, ctx) ==
    [traverse |-> traverse, channels |-> channels, bots_only |-> bots_only,
     users |-> users, regex |-> regex, first_limit |-> first,
     second_limit |-> second, use_cache |-> use_cache, ctx |-> ctx]

Ctx(channel, mod) == [channel |-> channel, mod |-> mod]

\* Python truthiness of the argument values
Truthy(x) == x.kind # "none" /\ ~(x.kind = "list" /\ x.list = <<>>)

\* a validation that refuses nothing
_validate_input_Accepts(traverse, channels, bots_only, users, first_limit, second_limit) ==
    "ok"

\* _validate_input: "ok", or the exception it raises
_validate_input(traverse, channels, bots_only, users, first_limit, second_limit) ==
    IF traverse > message_limit THEN "BadArgument"
    ELSE IF (first_limit.kind = "message" \/ second_limit.kind = "message")
            /\ Truthy(channels) THEN "BadArgument"
    ELSE IF first_limit.kind = "message" /\ second_limit.kind = "message"
            /\ first_limit.channel # second_limit.channel THEN "BadArgument"
    ELSE IF users # <<>> /\ bots_only THEN "BadArgument"
    ELSE IF Truthy(second_limit) /\ ~Truthy(first_limit) THEN "ValueError"
    ELSE "ok"

\* is_mod_channel(ctx.channel)
is_mod_channel(ctx) == ctx.mod

\* _build_predicate: the list `predicates` of the active sub-tests, in order
_build_predicate(bots_only, users, regex, first_limit, second_limit) ==
    (IF bots_only THEN <<[test |-> "bots_only"]>> ELSE <<>>)
    \o (IF users # <<>> THEN <<[test |-> "specific_users", users |-> users]>> ELSE <<>>)
    \o (IF Truthy(regex) THEN <<[test |-> "regex", regex |-> regex]>> ELSE <<>>)
    \o (IF Truthy(second_limit)
        THEN <<[test |-> "range", first |-> first_limit.t, second |-> second_limit.t]>>
        ELSE IF Truthy(first_limit)
        THEN <<[test |-> "after", first |-> first_limit.t]>>
        ELSE <<>>)

\* time tests that leave out the limits themselves
SubTest_Exclusive(p, message) ==
    CASE p.test = "bots_only" -> message.bot
      [] p.test = "specific_users" -> message.author \in SeqToSet(p.users)
      [] p.test = "regex" -> message.content \in p.regex.finds
      [] p.test = "range" -> p.first < message.created_at /\ message.created_at < p.second
      [] p.test = "after" -> message.created_at > p.first

\* One sub-test of the predicate applied to a message
SubTest(p, message) ==
    CASE p.test = "bots_only" -> message.bot
      [] p.test = "specific_users" -> message.author \in SeqToSet(p.users)
      [] p.test = "regex" -> message.content \in p.regex.finds
      [] p.test = "range" -> p.first <= message.created_at /\ message.created_at <= p.second
      [] p.test = "after" -> message.created_at >= p.first

\* a predicate that is content with one sub-test
to_delete_Any(predicates, message) ==
    \E i \in 1..Len(predicates) : SubTest(predicates[i], message)

\* The predicate _build_predicate returns, applied to a message
to_delete(predicates, message) ==
    \A i \in 1..Len(predicates) : SubTest(predicates[i], message)

\* ---------------------------------------------------------- age classifier
\* A reading of time.time(), a float of seconds, counted from the platform
\* epoch (1420070400000 ms after the Unix epoch): ms whole milliseconds and
\* us microseconds more (0..999).
Clock(ms, us) == [ms |-> ms, us |-> us]

\* int(whole + frac / 1000) for frac in 0..999: int() truncates towards zero
IntOf(whole, frac) == IF whole >= 0 \/ frac = 0 THEN whole ELSE whole + 1

\* two_weeks_old_snowflake, for the clock reading t:
\* int((time.time() - 14 * 24 * 60 * 60) * 1000.0 - 1420070400000) << 22
two_weeks_old_snowflake(t) == IntOf(t.ms - TwoWeeksMs, t.us) * Pow2(SnowflakeShift)

\* a comparison that takes the cutoff itself for too old
is_older_than_14d_Inclusive(message, t) == message.id <= two_weeks_old_snowflake(t)

is_older_than_14d(message, t) == message.id < two_weeks_old_snowflake(t)

\* ------------------------------------------------------- message sources
\* defaultdict(list) keeps its keys in insertion order: a sequence of
\* [channel, messages] entries.
MappingAppend(mm, ch, message) ==
    IF \E i \in 1..Len(mm) : mm[i].channel = ch
    THEN [i \in 1..Len(mm) |->
            IF mm[i].channel = ch
            THEN [mm[i] EXCEPT !.messages = Append(@, message)]
            ELSE mm[i]]
    ELSE Append(mm, [channel |-> ch, messages |-> <<message>>])

\* The keys of the mapping built from the matches `found`: the channels in
\* the order of their first match
KeysOf(found) ==
    LET chans == {found[i].channel : i \in 1..Len(found)}
        first(ch) == CHOOSE i \in 1..Len(found) :
                        /\ found[i].channel = ch
                        /\ \A j \in 1..(i - 1) : found[j].channel # ch
    IN [k \in 1..Cardinality(chans) |->
          CHOOSE ch \in chans : Cardinality({d \in chans : first(d) < first(ch)}) = k - 1]

\* The for loop of _get_messages_from_cache over `items`.  Nothing awaits
\* inside it, so the flag it reads is the same in every iteration: cleared,
\* the first iteration returns; set, every item is tested.
ScanCache(items, predicates, flag) ==
    IF items = <<>> \/ ~flag
    THEN [message_mappings |-> <<>>, message_ids |-> <<>>]
    ELSE LET matches(message) == to_delete(predicates, message)
             found == SelectSeq(items, matches)
             keys == KeysOf(found)
         IN [message_mappings |->
                [k \in 1..Len(keys) |->
                    [channel |-> keys[k],
                     messages |-> LET here(message) == message.channel = keys[k]
                                  IN SelectSeq(found, here)]],
             message_ids |-> [i \in 1..Len(found) |-> found[i].id]]

EmptyContainers == [message_mappings |-> <<>>, message_ids |-> <<>>]

\* a scan that goes through the cache whatever the flag says
_get_messages_from_cache_NoStop(traverse, predicates, flag) ==
    LET items == SubSeq(cached_messages, 1, Min(traverse, Len(cached_messages)))
        got == ScanCache(items, predicates, TRUE)
    IN [message_mappings |-> got.message_mappings, message_ids |-> got.message_ids,
        seen |-> "-", scanned |-> Len(items)]

\* seen: "cache" when the loop left through lines 203-205; scanned: the
\* number of messages the loop passed to to_delete
_get_messages_from_cache(traverse, predicates, flag) ==
    LET items == SubSeq(cached_messages, 1, Min(traverse, Len(cached_messages)))
        got == ScanCache(items, predicates, flag)
    IN [message_mappings |-> got.message_mappings, message_ids |-> got.message_ids,
        seen |-> IF items # <<>> /\ ~flag THEN "cache" ELSE "-",
        scanned |-> IF flag THEN Len(items) ELSE 0]

\* channel.history(limit=traverse, before=before, after=after)
HistoryOf(ch, traverse, before, after) ==
    LET inRange(m) == /\ (Truthy(before) => m.created_at < before.t)
                      /\ (Truthy(after) => m.created_at > after.t)
        found == SelectSeq(history[ch], inRange)
    IN SubSeq(found, 1, Min(traverse, Len(found)))

\* ------------------------------------------------- the coroutine's frame
NoArgs == Args(0, NoChannels, FALSE, <<>>, NoRegex, NoLimit, NoLimit, FALSE, Ctx("c1", TRUE))

\* pc is the await the coroutine is suspended in ("idle": no coroutine).
\* calls, ages, cancelled, reported, enum and ended record what the session
\* did; the code never reads them.  ended tells how the last accepted
\* session of the slot ended: "returned", "cancelled" (the return of line
\* 406) or "raised" ("never": there was none).  enum tells how its
\* enumeration returned: seen is the enumerator that met the cleared flag
\* ("history": line 227, "cache": line 203, "-": none did), empty tells
\* whether the containers it returned were empty, and held is the number of
\* matches it had accumulated by then.
IdleFrame ==
    [pc |-> "idle", a |-> NoArgs,
     channels |-> NoChannels, first_limit |-> NoLimit, second_limit |-> NoLimit,
     predicate |-> <<>>, deletion_channels |-> <<>>, hc |-> 0, hi |-> 0,
     message_mappings |-> <<>>, message_ids |-> <<>>,
     deleted |-> <<>>, ci |-> 0, to_delete |-> <<>>, delete_old |-> FALSE,
     current_index |-> 0, old |-> <<>>, oi |-> 0, old_deleted |-> <<>>,
     calls |-> <<>>, ages |-> <<>>, cancelled |-> "no",
     reported |-> [done |-> FALSE, messages |-> <<>>],
     enum |-> [seen |-> "-", empty |-> TRUE, held |-> 0], ended |-> "never"]

EnumeratingPcs == {"delete_invocation", "history"}
DeletingPcs == {"bulk_full", "bulk_rest", "single"}
ReportingPcs == {"report_none", "upload_log", "send_log_message", "add_reaction"}
\* past the entry guard of _clean_messages, not yet returned or raised
InProgress(f) == f.pc \in EnumeratingPcs \cup DeletingPcs \cup ReportingPcs

\* cog_command_error: the new value of self.cleaning
\* a handler that leaves the flag as it finds it
cog_command_error_KeepsFlag(flag) == flag

\* cog_command_error: self.cleaning = False
cog_command_error(flag) == FALSE

\* The coroutine of an accepted session ends.
Ended(f, how) == [IdleFrame EXCEPT !.ended = how]

Return(m, how) == [f |-> Ended(m.f, how), cleaning |-> m.cleaning]

\* An exception leaves the command; the framework runs cog_command_error.
Raise(m) == [f |-> Ended(m.f, "raised"), cleaning |-> cog_command_error(m.cleaning)]

\* A delete call is issued: await channel.delete_messages / message.delete
IssueCall(f, kind, ch, msgs, at) ==
    [f EXCEPT !.pc = at,
              !.calls = Append(@, [kind |-> kind, channel |-> ch, messages |-> msgs,
                                   result |-> "pending",
                                   after_cancel |-> f.cancelled # "no"])]

\* is_older_than_14d answered `old` for messages[i] of the current channel,
\* at the clock reading `at`
Classified(f, i, old) ==
    [channel |-> f.message_mappings[f.ci].channel, index |-> i, old |-> old,
     id |-> f.message_mappings[f.ci].messages[i].id, at |-> now]

\* The awaited delete call came back with `outcome`
CallResult(f, outcome) == [f EXCEPT !.calls[Len(f.calls)].result = outcome]

\* a reporter that uploads a log whatever the list holds
_modlog_cleaned_messages_Always(m, messages) ==
    [m EXCEPT !.f = [m.f EXCEPT !.reported = [done |-> TRUE, messages |-> messages],
                                !.pc = "upload_log"]]

\* --------------------------------------------------------------- reporting
\* _modlog_cleaned_messages up to its first await
_modlog_cleaned_messages(m, messages) ==
    LET f == [m.f EXCEPT !.reported = [done |-> TRUE, messages |-> messages]] IN
    IF messages = <<>>
    THEN [m EXCEPT !.f = [f EXCEPT !.pc = "report_none"]]
    ELSE [m EXCEPT !.f = [f EXCEPT !.pc = "upload_log"]]

\* a session that clears the flag and ends without calling the reporter
AfterDeleteFound_NoReport(m) == Return([m EXCEPT !.cleaning = FALSE], "returned")

\* a session that calls the reporter with the flag as it is
AfterDeleteFound_KeepsFlag(m) ==
    _modlog_cleaned_messages(
        [f |-> [m.f EXCEPT !.ci = 0, !.to_delete = <<>>, !.delete_old = FALSE,
                           !.current_index = 0],
         cleaning |-> m.cleaning],
        m.f.deleted)

\* _clean_messages from the return of _delete_found (lines 411-413)
AfterDeleteFound(m) ==
    _modlog_cleaned_messages(
        [f |-> [m.f EXCEPT !.ci = 0, !.to_delete = <<>>, !.delete_old = FALSE,
                           !.current_index = 0],
         cleaning |-> FALSE],
        m.f.deleted)

\* ----------------------------------------------------------------- deleter
RECURSIVE DeleteFoundChannel(_)

\* _delete_messages_individually from the head of its loop, at messages[oi]
DeleteIndividually(m) ==
    LET f == m.f IN
    IF f.oi > Len(f.old) \/ ~m.cleaning
    THEN \* return deleted; the caller extends and goes to the next channel
         DeleteFoundChannel(
             [m EXCEPT !.f = [f EXCEPT !.deleted = @ \o f.old_deleted,
                                       !.old = <<>>, !.oi = 0, !.old_deleted = <<>>,
                                       !.ci = @ + 1]])
    ELSE [m EXCEPT !.f = IssueCall(f, "single", f.old[f.oi].channel,
                                   <<f.old[f.oi]>>, "single")]

\* a tail that is deleted whatever the flag says
AfterLeftover_IgnoresFlag(m) ==
    LET f == m.f
        messages == f.message_mappings[f.ci].messages
    IN
    IF f.delete_old
    THEN [m EXCEPT !.f = IssueCall([f EXCEPT !.old = SubSeq(messages, f.current_index,
                                                            Len(messages)),
                                             !.oi = 1, !.old_deleted = <<>>],
                                   "single", f.message_mappings[f.ci].channel,
                                   <<messages[f.current_index]>>, "single")]
    ELSE DeleteFoundChannel([m EXCEPT !.f = [f EXCEPT !.ci = @ + 1]])

\* a tail that starts one message after the one that broke the loop
AfterLeftover_SkipsCut(m) ==
    LET f == m.f
        messages == f.message_mappings[f.ci].messages
    IN
    IF ~m.cleaning THEN AfterDeleteFound(m)
    ELSE IF f.delete_old
    THEN DeleteIndividually(
             [m EXCEPT !.f = [f EXCEPT !.old = SubSeq(messages, f.current_index + 1,
                                                      Len(messages)),
                                       !.oi = 1, !.old_deleted = <<>>]])
    ELSE DeleteFoundChannel([m EXCEPT !.f = [f EXCEPT !.ci = @ + 1]])

\* _delete_found from line 301
AfterLeftover(m) ==
    LET f == m.f
        messages == f.message_mappings[f.ci].messages
    IN
    IF ~m.cleaning THEN AfterDeleteFound(m)
    ELSE IF f.delete_old
    THEN DeleteIndividually(
             [m EXCEPT !.f = [f EXCEPT !.old = SubSeq(messages, f.current_index,
                                                      Len(messages)),
                                       !.oi = 1, !.old_deleted = <<>>]])
    ELSE DeleteFoundChannel([m EXCEPT !.f = [f EXCEPT !.ci = @ + 1]])

\* a loop exit that puts the message that broke the loop into the batch
AfterLoop_TakesCut(m) ==
    LET f == m.f
        messages == f.message_mappings[f.ci].messages
        batch == IF f.delete_old
                 THEN Append(f.to_delete, messages[f.current_index])
                 ELSE f.to_delete
    IN
    IF ~m.cleaning THEN AfterDeleteFound(m)
    ELSE IF Len(batch) > 0
    THEN [m EXCEPT !.f = IssueCall([f EXCEPT !.to_delete = batch], "bulk",
                                   f.message_mappings[f.ci].channel,
                                   batch, "bulk_rest")]
    ELSE AfterLeftover(m)

\* a loop exit that drops the batch left over
AfterLoop_NoFlush(m) ==
    IF ~m.cleaning THEN AfterDeleteFound(m) ELSE AfterLeftover(m)

\* _delete_found from line 293, after the loop over the channel's messages
AfterLoop(m) ==
    LET f == m.f IN
    IF ~m.cleaning THEN AfterDeleteFound(m)
    ELSE IF Len(f.to_delete) > 0
    THEN [m EXCEPT !.f = IssueCall(f, "bulk", f.message_mappings[f.ci].channel,
                                   f.to_delete, "bulk_rest")]
    ELSE AfterLeftover(m)

\* The loop of lines 274-291 from its iteration i (1-based), entered with
\* to_delete empty (at the start of a channel and after a full batch).
\* Nothing awaits before the next delete_messages call, so the flag and the
\* clock are the same in every iteration up to it: the loop takes the
\* messages from i up to the first one that is too old, and stops at the
\* BulkCap-th of them to delete the batch.
DeleteFoundLoop(m, i) ==
    LET f == m.f
        messages == f.message_mappings[f.ci].messages
        n == Len(messages)
        olds == {j \in i..n : is_older_than_14d(messages[j], now)}
        \* the iteration that breaks (n + 1: none does)
        cut == IF olds = {} THEN n + 1
               ELSE CHOOSE j \in olds : \A k \in olds : j <= k
        \* the last iteration that appends
        last == Min(cut - 1, i + BulkCap - 1)
        batch == SubSeq(messages, i, last)
        young == [j \in 1..Len(batch) |-> Classified(f, i + j - 1, FALSE)]
    IN
    IF i > n THEN AfterLoop(m)
    ELSE IF ~m.cleaning THEN AfterDeleteFound(m)
    ELSE IF Len(batch) = BulkCap
    THEN LET g == [f EXCEPT !.to_delete = batch, !.current_index = last,
                            !.ages = @ \o young]
         IN [m EXCEPT !.f = IssueCall(g, "bulk", g.message_mappings[g.ci].channel,
                                      g.to_delete, "bulk_full")]
    ELSE IF cut <= n
    THEN AfterLoop([m EXCEPT !.f = [f EXCEPT !.to_delete = batch,
                                             !.delete_old = TRUE,
                                             !.current_index = cut,
                                             !.ages = (@ \o young)
                                                 \o <<Classified(f, cut, TRUE)>>]])
    ELSE AfterLoop([m EXCEPT !.f = [f EXCEPT !.to_delete = batch,
                                             !.current_index = n,
                                             !.ages = @ \o young]])

\* the loop of line 270 at its entry number ci
DeleteFoundChannel(m) ==
    IF m.f.ci > Len(m.f.message_mappings)
    THEN AfterDeleteFound(m)
    ELSE DeleteFoundLoop(
             [m EXCEPT !.f = [m.f EXCEPT !.to_delete = <<>>, !.delete_old = FALSE,
                                         !.current_index = 0]], 1)

\* _delete_found from its first line
_delete_found(m) ==
    DeleteFoundChannel([m EXCEPT !.f = [m.f EXCEPT !.deleted = <<>>, !.ci = 1]])

\* What the enumeration of the session with frame f returned
Enumerated(f, got) ==
    [seen |-> got.seen,
     empty |-> got.message_mappings = <<>> /\ got.message_ids = <<>>,
     held |-> Len(f.message_ids)]

\* _clean_messages from line 404, with what the enumeration returned
AfterEnumeration(m, got) ==
    IF ~m.cleaning
    THEN [f |-> [IdleFrame EXCEPT !.ended = "cancelled", !.enum = Enumerated(m.f, got)],
          cleaning |-> m.cleaning]
    ELSE _delete_found(
             [m EXCEPT !.f = [m.f EXCEPT !.message_mappings = got.message_mappings,
                                         !.enum = Enumerated(m.f, got),
                                         !.message_ids = <<>>,
                                         !.deletion_channels = <<>>,
                                         !.hc = 0, !.hi = 0]])

\* ------------------------------------------------------------ enumeration
\* The keyword arguments of lines 397-401 and 225: after is the first limit
HistoryArgs(f) ==
    [limit |-> f.a.traverse, before |-> f.second_limit, after |-> f.first_limit]

\* an enumerator that returns what it has accumulated when it is cancelled
CancelledHistory_Accumulated(f) ==
    [message_mappings |-> f.message_mappings, message_ids |-> f.message_ids,
     seen |-> "history"]

\* _get_messages_from_channels at line 229: Cleaning was canceled, return
\* empty containers.
CancelledHistory(f) ==
    [message_mappings |-> <<>>, message_ids |-> <<>>, seen |-> "history"]

\* _get_messages_from_channels, resumed by channel.history: what it does
\* with the flag `flag` until it suspends again, returns or raises.
_get_messages_from_channels(f, flag, outcome) ==
    LET ch == f.deletion_channels[f.hc]
        h == HistoryArgs(f)
        items == HistoryOf(ch, h.limit, h.before, h.after)
    IN
    IF outcome = "error" THEN [state |-> "raised", f |-> f]
    ELSE IF f.hi < Len(items)
    THEN LET message == items[f.hi + 1] IN
         IF ~flag
         THEN [state |-> "returned", f |-> f, got |-> CancelledHistory(f)]
         ELSE [state |-> "suspended",
               f |-> IF to_delete(f.predicate, message)
                     THEN [f EXCEPT !.hi = @ + 1,
                                    !.message_mappings =
                                        MappingAppend(@, message.channel, message),
                                    !.message_ids = Append(@, message.id)]
                     ELSE [f EXCEPT !.hi = @ + 1]]
    ELSE IF f.hc < Len(f.deletion_channels)
    THEN [state |-> "suspended", f |-> [f EXCEPT !.hc = @ + 1, !.hi = 0]]
    ELSE [state |-> "returned", f |-> f,
          got |-> [message_mappings |-> f.message_mappings,
                   message_ids |-> f.message_ids, seen |-> "-"]]

\* a selection that serves every "*" scope from the cache
Enumerate_CacheForAll(m) ==
    LET f == m.f IN
    IF f.channels.kind = "all"
    THEN AfterEnumeration(m, _get_messages_from_cache(f.a.traverse, f.predicate, m.cleaning))
    ELSE [m EXCEPT !.f = [f EXCEPT !.pc = "history",
                                   !.deletion_channels = f.channels.list,
                                   !.hc = 1, !.hi = 0]]

\* _clean_messages from line 390
Enumerate(m) ==
    LET f == m.f IN
    IF f.channels.kind = "all" /\ f.a.use_cache
    THEN AfterEnumeration(m, _get_messages_from_cache(f.a.traverse, f.predicate, m.cleaning))
    ELSE [m EXCEPT !.f = [f EXCEPT !.pc = "history",
                                   !.deletion_channels =
                                        IF f.channels.kind = "all"
                                        THEN GuildTextChannels ELSE f.channels.list,
                                   !.hc = 1, !.hi = 0]]

\* the limits in the order they were given
SortedLimits_AsGiven(first, second) == <<first, second>>

\* lines 381-382: sorted([first_limit, second_limit]) when both are given
SortedLimits(first, second) ==
    IF Truthy(first) /\ Truthy(second) /\ second.t < first.t
    THEN <<second, first>> ELSE <<first, second>>

\* a scope that is always the invoking channel
ResolveChannels_Invoking(a) ==
    IF ~Truthy(a.channels) THEN ChannelList(<<a.ctx.channel>>) ELSE a.channels

\* lines 367-375: the scope when no channels are given
ResolveChannels(a) ==
    IF ~Truthy(a.channels)
    THEN IF a.first_limit.kind = "message"
         THEN ChannelList(<<a.first_limit.channel>>)
         ELSE IF a.second_limit.kind = "message"
         THEN ChannelList(<<a.second_limit.channel>>)
         ELSE ChannelList(<<a.ctx.channel>>)
    ELSE a.channels

\* lines 377-380: a Message given as a limit becomes its created_at
ResolveLimit(limit) ==
    IF limit.kind = "message" THEN TimeLimit(limit.t) ELSE limit

\* _clean_messages from its first line to its first await
_clean_messages(m, a) ==
    IF _validate_input(a.traverse, a.channels, a.bots_only, a.users,
                       a.first_limit, a.second_limit) # "ok"
    THEN \* raised before the entry guard: cog_command_error runs
         [m EXCEPT !.cleaning = cog_command_error(m.cleaning)]
    ELSE IF m.cleaning
    THEN [m EXCEPT !.f.pc = "reject_send"]
    ELSE LET channels == ResolveChannels(a)
             first == ResolveLimit(a.first_limit)
             second == ResolveLimit(a.second_limit)
             limits == SortedLimits(first, second)
             f == [IdleFrame EXCEPT
                     !.a = a, !.channels = channels,
                     !.first_limit = limits[1], !.second_limit = limits[2],
                     !.predicate = _build_predicate(a.bots_only, a.users, a.regex,
                                                    limits[1], limits[2])]
             m1 == [f |-> f, cleaning |-> TRUE]
         IN \* _delete_invocation awaits only outside the mod channels
            IF ~is_mod_channel(a.ctx)
            THEN [m1 EXCEPT !.f.pc = "delete_invocation"]
            ELSE Enumerate(m1)

\* ---------------------------------------------------------------- actions
M(s) == [f |-> sess[s], cleaning |-> cleaning]

Set(s, m) ==
    /\ sess' = [sess EXCEPT ![s] = m.f]
    /\ cleaning' = m.cleaning

\* What the coroutines of the Clean cog leave alone: the clock, the
\* messages, and the state of the Snekbox cog
World == <<now, history, cached_messages, jobs, runs>>

\* A clean command (clean_group, clean_user, clean_all, ...) calls _clean_messages.
clean_invoke(s, a) ==
    /\ sess[s].pc = "idle"
    /\ Set(s, _clean_messages(M(s), a))
    /\ UNCHANGED World

\* line 361: the notice of the rejected invocation was sent, or ctx.send raised
reject_send_returns(s) ==
    /\ sess[s].pc = "reject_send"
    /\ \E outcome \in {"ok", "error"} :
          Set(s, [f |-> [sess[s] EXCEPT !.pc = "idle"],
                  cleaning |-> IF outcome = "ok" THEN cleaning
                               ELSE cog_command_error(cleaning)])
    /\ UNCHANGED World

\* line 388: ctx.message.delete() of _delete_invocation came back
delete_invocation_returns(s) ==
    /\ sess[s].pc = "delete_invocation"
    /\ \E outcome \in {"ok", "NotFound", "error"} :
          Set(s, IF outcome = "error" THEN Raise(M(s)) ELSE Enumerate(M(s)))
    /\ UNCHANGED World

\* line 225: channel.history yields its next message, ends, or raises
history_next(s) ==
    /\ sess[s].pc = "history"
    /\ \E outcome \in {"ok", "error"} :
          LET r == _get_messages_from_channels(sess[s], cleaning, outcome) IN
          Set(s, CASE r.state = "raised" -> Raise(M(s))
                   [] r.state = "suspended" -> [f |-> r.f, cleaning |-> cleaning]
                   [] r.state = "returned" -> AfterEnumeration(M(s), r.got))
    /\ UNCHANGED World

\* lines 289 and 298: channel.delete_messages came back
delete_messages_returns(s) ==
    /\ sess[s].pc \in {"bulk_full", "bulk_rest"}
    /\ \E outcome \in {"ok", "NotFound", "error"} :
          LET f == CallResult(sess[s], outcome)
              \* suppress(NotFound), then deleted.extend(to_delete)
              g == [f EXCEPT !.deleted = @ \o f.to_delete, !.to_delete = <<>>]
              m == [f |-> g, cleaning |-> cleaning]
          IN Set(s, IF outcome = "error" THEN Raise(m)
                    ELSE IF f.pc = "bulk_full"
                    THEN DeleteFoundLoop(m, f.current_index + 1)
                    ELSE AfterLeftover(m))
    /\ UNCHANGED World

\* line 257: message.delete() came back
message_delete_returns(s) ==
    /\ sess[s].pc = "single"
    /\ \E outcome \in {"ok", "NotFound", "error"} :
          LET f == CallResult(sess[s], outcome)
              \* suppress(NotFound) skips the append
              g == [f EXCEPT !.old_deleted = IF outcome = "ok"
                                             THEN Append(@, f.old[f.oi]) ELSE @,
                             !.oi = @ + 1]
              m == [f |-> g, cleaning |-> cleaning]
          IN Set(s, IF outcome = "error" THEN Raise(m) ELSE DeleteIndividually(m))
    /\ UNCHANGED World

\* line 313: the "No matching messages" notice was sent, or ctx.send raised
report_none_returns(s) ==
    /\ sess[s].pc = "report_none"
    /\ \E outcome \in {"ok", "error"} :
          Set(s, IF outcome = "ok" THEN Return(M(s), "returned") ELSE Raise(M(s)))
    /\ UNCHANGED World

\* line 318: mod_log.upload_log came back
upload_log_returns(s) ==
    /\ sess[s].pc = "upload_log"
    /\ \E outcome \in {"ok", "error"} :
          Set(s, IF outcome = "ok"
                 THEN \* the locals that nothing reads any more are dropped
                      [f |-> [IdleFrame EXCEPT !.pc = "send_log_message",
                                               !.a = sess[s].a,
                                               !.reported.done = TRUE],
                       cleaning |-> cleaning]
                 ELSE Raise(M(s)))
    /\ UNCHANGED World

\* line 332: mod_log.send_log_message came back; lines 415-417
send_log_message_returns(s) ==
    /\ sess[s].pc = "send_log_message"
    /\ \E outcome \in {"ok", "error"} :
          Set(s, IF outcome = "error" THEN Raise(M(s))
                 ELSE IF is_mod_channel(sess[s].a.ctx)
                 THEN [f |-> [sess[s] EXCEPT !.pc = "add_reaction"],
                       cleaning |-> cleaning]
                 ELSE Return(M(s), "returned"))
    /\ UNCHANGED World

\* line 417: ctx.message.add_reaction came back
add_reaction_returns(s) ==
    /\ sess[s].pc = "add_reaction"
    /\ \E outcome \in {"ok", "NotFound", "error"} :
          Set(s, IF outcome = "error" THEN Raise(M(s)) ELSE Return(M(s), "returned"))
    /\ UNCHANGED World

\* a cancel command that leaves the flag as it finds it
CancelBranch_KeepsFlag(flag) ==
    [cleaning |-> flag, message |-> "Clean interrupted."]

\* clean_cancel, lines 575-579: the flag it leaves and the message it sends
CancelBranch(flag) ==
    IF ~flag
    THEN [cleaning |-> flag, message |-> "There's no cleaning going on."]
    ELSE [cleaning |-> FALSE, message |-> "Clean interrupted."]

\* clean_cancel from its first line to the await of line 581.  A session
\* that is enumerating or deleting when the command clears the flag notes
\* the phase it was cancelled in.
clean_cancel ==
    /\ cleaning' = CancelBranch(cleaning).cleaning
    /\ sess' = [s \in Sessions |->
                  IF cleaning /\ sess[s].cancelled = "no"
                     /\ sess[s].pc \in EnumeratingPcs \cup DeletingPcs
                  THEN [sess[s] EXCEPT !.cancelled =
                            IF sess[s].pc \in DeletingPcs THEN "deleting"
                            ELSE "enumerating"]
                  ELSE sess[s]]
    /\ UNCHANGED World

\* A command of the cog raises outside _clean_messages and the framework
\* runs cog_command_error: Regex.convert raises BadArgument (lines 53-54 and
\* 57-58) before the command body runs, or ctx.send / ctx.message.delete
\* raises in clean_cancel (lines 581-582), whose awaits change no state
\* otherwise.
command_error ==
    /\ cleaning' = cog_command_error(cleaning)
    /\ UNCHANGED <<sess, World>>

\* time.time() advances
Tick ==
    /\ now.ms < TwoWeeksMs + MaxClock
    /\ now' = [now EXCEPT !.ms = @ + 1]
    /\ UNCHANGED <<cleaning, sess, history, cached_messages, jobs, runs>>

\* ------------------------------------------------- the code-execution relay
\* Snekbox.run_eval (snekbox.py): the activations alive at once, the
\* requesters, and the frame of no activation
Runs == 1..MaxRuns

Authors == {"a1", "a2"}

IdleRun == [pc |-> "idle", author |-> "-"]

\* Snekbox.__init__: self.jobs = {}
NoEval ==
    /\ jobs = {}
    /\ runs = [r \in Runs |-> IdleRun]

Cleaner == <<cleaning, sess, now, history, cached_messages>>

\* eval_command / timeit_command call run_eval, which runs to its first
\* await: the notice of line 346, the help of line 353, or send_func after
\* line 371 has entered the job.
eval_command(r) ==
    /\ runs[r].pc = "idle"
    /\ \E author \in Authors, code \in {"", "code"} :
          IF author \in jobs
          THEN /\ runs' = [runs EXCEPT ![r] = [pc |-> "send", author |-> author]]
               /\ jobs' = jobs
          ELSE IF code = ""
          THEN /\ runs' = [runs EXCEPT ![r] = [pc |-> "send_help", author |-> author]]
               /\ jobs' = jobs
          ELSE /\ runs' = [runs EXCEPT ![r] = [pc |-> "send_func", author |-> author]]
               /\ jobs' = jobs \cup {author}
    /\ UNCHANGED Cleaner

\* lines 346-350 and 353-354: the notice or the help was sent (or the send
\* raised), and run_eval returns
notice_returns(r) ==
    /\ runs[r].pc \in {"send", "send_help"}
    /\ runs' = [runs EXCEPT ![r] = IdleRun]
    /\ UNCHANGED <<jobs, Cleaner>>

\* lines 374-378: send_func came back or raised; the finally clause deletes
\* the author's entry, which raises KeyError when it is not there; then
\* continue_eval waits for an edit of the invoking message
send_func_returns(r) ==
    /\ runs[r].pc = "send_func"
    /\ \E outcome \in {"ok", "error"} :
          /\ jobs' = jobs \ {runs[r].author}
          /\ runs' = [runs EXCEPT ![r] =
                         IF outcome = "ok" /\ runs[r].author \in jobs
                         THEN [runs[r] EXCEPT !.pc = "continue_eval"]
                         ELSE IdleRun]
    /\ UNCHANGED Cleaner

\* lines 378-381 and 370-374: continue_eval returned the new code, and the
\* loop enters the job again at line 371 without the test of line 345; or
\* it returned None (or raised), and run_eval ends
continue_eval_returns(r) ==
    /\ runs[r].pc = "continue_eval"
    /\ \E outcome \in {"code", "None", "error"} :
          IF outcome = "code"
          THEN /\ jobs' = jobs \cup {runs[r].author}
               /\ runs' = [runs EXCEPT ![r] = [runs[r] EXCEPT !.pc = "send_func"]]
          ELSE /\ jobs' = jobs
               /\ runs' = [runs EXCEPT ![r] = IdleRun]
    /\ UNCHANGED Cleaner

\* ------------------------------------------------------- the specification
\* c1 holds three messages, newest first, c2 one; the cache holds two.
\* With the clock at TwoWeeksMs + k the messages created before k are older
\* than 14 days.
History0 ==
    [ch \in Channels |->
        IF ch = "c1"
        THEN <<Msg(2, 0, "c1", "u1", FALSE), Msg(1, 0, "c1", "b1", TRUE),
               Msg(0, 0, "c1", "u2", FALSE)>>
        ELSE <<Msg(MaxClock + 1, 1, "c2", "b1", TRUE)>>]

Cache0 ==
    <<Msg(MaxClock + 1, 1, "c2", "b1", TRUE), Msg(2, 0, "c1", "u1", FALSE)>>

\* clean all 10 c1 c2 (from a mod channel): history strategy over two channels
RequestHistory ==
    Args(DEFAULT_TRAVERSE, ChannelList(<<"c1", "c2">>), FALSE, <<>>, NoRegex,
         NoLimit, NoLimit, TRUE, Ctx("c1", TRUE))
\* clean bots * (from a channel that is no mod channel): cache strategy
RequestCache ==
    Args(DEFAULT_TRAVERSE, AllChannels, TRUE, <<>>, NoRegex, NoLimit, NoLimit,
         TRUE, Ctx("c2", FALSE))
\* clean user u9 (from c2, a mod channel): nothing matches
RequestUser ==
    Args(DEFAULT_TRAVERSE, NoChannels, FALSE, <<"u9">>, NoRegex, NoLimit, NoLimit,
         TRUE, Ctx("c2", TRUE))
\* clean all 10001: more than message_limit
RequestInvalid ==
    Args(message_limit + 1, NoChannels, FALSE, <<>>, NoRegex, NoLimit, NoLimit,
         TRUE, Ctx("c1", TRUE))

Requests == {RequestHistory, RequestCache, RequestUser, RequestInvalid}

\* Slot 1 draws from every request.  The further slots are the invocations
\* that arrive while it runs: they draw from the requests with the fewest
\* awaits.
RequestsOf(s) == IF s = 1 THEN Requests ELSE {RequestCache, RequestInvalid}

\* One step of the coroutine in slot s, once it is past the entry guard
SessionStep(s) ==
    \/ \E a \in RequestsOf(s) : clean_invoke(s, a)
    \/ delete_invocation_returns(s)
    \/ history_next(s)
    \/ delete_messages_returns(s)
    \/ message_delete_returns(s)
    \/ report_none_returns(s)
    \/ upload_log_returns(s)
    \/ send_log_message_returns(s)
    \/ add_reaction_returns(s)

\* The specification of the cog under concurrent invocations.  The clock
\* stands at TwoWeeksMs + 2: of c1, the first message is young enough for a
\* bulk delete and the other two are not.
Init ==
    /\ cleaning = FALSE
    /\ sess = [s \in Sessions |-> IdleFrame]
    /\ NoEval
    /\ now = Clock(TwoWeeksMs + 2, 0)
    /\ history = History0
    /\ cached_messages = Cache0

Next ==
    \/ \E s \in Sessions : SessionStep(s)
    \/ \E s \in Sessions : reject_send_returns(s)
    \/ clean_cancel
    \/ command_error

Spec == Init /\ [][Next]_vars

\* The specification of one session at a time while the clock advances:
\* c1 holds four messages, of which the clock makes two, three or all too
\* old for a bulk delete.
HistoryD ==
    [ch \in Channels |->
        IF ch = "c1"
        THEN <<Msg(2, 0, "c1", "u1", FALSE), Msg(1, 0, "c1", "b1", TRUE),
               Msg(0, 1, "c1", "u2", FALSE), Msg(0, 0, "c1", "u1", FALSE)>>
        ELSE <<Msg(MaxClock + 1, 1, "c2", "b1", TRUE)>>]

InitDeleter ==
    /\ cleaning = FALSE
    /\ sess = [s \in Sessions |-> IdleFrame]
    /\ NoEval
    /\ now = Clock(TwoWeeksMs + 1, 0)
    /\ history = HistoryD
    /\ cached_messages = Cache0

NextDeleter ==
    \/ SessionStep(1)
    \/ clean_cancel
    \/ Tick

SpecDeleter == InitDeleter /\ [][NextDeleter]_vars

\* The call the coroutine in slot s awaits raises an exception that the
\* code does not suppress: every await of a session can end so.
call_raises(s) ==
    /\ InProgress(sess[s])
    /\ Set(s, Raise(M(s)))
    /\ UNCHANGED World

\* The event loop resumes the coroutine in slot s when the call it awaits
\* has returned or raised.
Resumes(s) ==
    \/ call_raises(s)
    \/ reject_send_returns(s)
    \/ delete_invocation_returns(s)
    \/ history_next(s)
    \/ delete_messages_returns(s)
    \/ message_delete_returns(s)
    \/ report_none_returns(s)
    \/ upload_log_returns(s)
    \/ send_log_message_returns(s)
    \/ add_reaction_returns(s)

\* The specification of termination: one session at a time, the cancel
\* command, the errors of the other commands of the cog and the clock, when
\* every external call returns or raises in the end, so that a suspended
\* coroutine is resumed.
NextLive ==
    \/ SessionStep(1)
    \/ clean_cancel
    \/ command_error
    \/ Tick

SpecLive == InitDeleter /\ [][NextLive]_vars /\ WF_vars(Resumes(1))

\* The specification of the Deleter on a cache of up to MaxBulkN messages of
\* c1 that are young enough for a bulk delete, followed by nothing, by a
\* message of c1 that is too old, or by a message of c2; no cancellation:
\* clean all 10000 * from a mod channel, served from the cache.
RequestBulk ==
    Args(message_limit, AllChannels, FALSE, <<>>, NoRegex, NoLimit, NoLimit,
         TRUE, Ctx("c1", TRUE))

BulkTails ==
    {<<>>, <<Msg(0, 0, "c1", "u2", FALSE)>>, <<Msg(1, 0, "c2", "b1", TRUE)>>}

InitBulk ==
    /\ cleaning = FALSE
    /\ sess = [s \in Sessions |-> IdleFrame]
    /\ NoEval
    /\ now = Clock(TwoWeeksMs + 1, 0)
    /\ history = [ch \in Channels |-> <<>>]
    /\ \E n \in 0..MaxBulkN, tail \in BulkTails :
          cached_messages = [i \in 1..n |-> Msg(1, i, "c1", "u1", FALSE)] \o tail

NextBulk ==
    \/ clean_invoke(1, RequestBulk)
    \/ delete_messages_returns(1)
    \/ message_delete_returns(1)
    \/ report_none_returns(1)
    \/ upload_log_returns(1)
    \/ send_log_message_returns(1)
    \/ add_reaction_returns(1)

SpecBulk == InitBulk /\ [][NextBulk]_vars

\* The specification of the age classifier: a session that cleans one
\* message of c1 and one of c2 from the cache, for every identifier of the
\* first (creation time and low bits) and every clock reading it starts at,
\* while the clock advances.
InitAge ==
    /\ cleaning = FALSE
    /\ sess = [s \in Sessions |-> IdleFrame]
    /\ NoEval
    /\ \E ms \in (TwoWeeksMs - 1)..(TwoWeeksMs + MaxClock), us \in {0, 500} :
          now = Clock(ms, us)
    /\ history = [ch \in Channels |-> <<>>]
    /\ \E ts \in 0..MaxClock, ctr \in {0, Pow2(SnowflakeShift) - 1} :
          cached_messages = <<Msg(ts, ctr, "c1", "u1", FALSE), Msg(1, 1, "c2", "b1", TRUE)>>

NextAge ==
    \/ clean_invoke(1, RequestBulk)
    \/ delete_messages_returns(1)
    \/ message_delete_returns(1)
    \/ report_none_returns(1)
    \/ upload_log_returns(1)
    \/ send_log_message_returns(1)
    \/ add_reaction_returns(1)
    \/ Tick

SpecAge == InitAge /\ [][NextAge]_vars

\* The specification of the relay: eval commands of two requesters in up to
\* MaxRuns activations of run_eval.
NextEval ==
    \/ \E r \in Runs : eval_command(r)
    \/ \E r \in Runs : notice_returns(r)
    \/ \E r \in Runs : send_func_returns(r)
    \/ \E r \in Runs : continue_eval_returns(r)

SpecEval == Init /\ [][NextEval]_vars

\* The specification of one session at a time over the arguments a clean
\* command can pass: every combination of the limits, scopes and criteria
\* below.  CleanChannels.convert (lines 40-44) converts each word of the
\* argument and keeps the list as it was written, so a channel can be in it
\* twice.
Pattern(finds) == [kind |-> "pattern", finds |-> finds]

LimitSpace ==
    {NoLimit, MessageLimit(Msg(1, 0, "c1", "b1", TRUE)),
     MessageLimit(Msg(MaxClock + 1, 1, "c2", "b1", TRUE)),
     TimeLimit(2), TimeLimit(MaxClock + 1)}

ArgSpace ==
    {Args(DEFAULT_TRAVERSE, channels, bots_only, users, regex, first, second,
          use_cache, ctx) :
        channels \in {NoChannels, AllChannels, ChannelList(<<"c1">>),
                      ChannelList(<<"c1", "c1">>)},
        bots_only \in BOOLEAN, users \in {<<>>, <<"u1">>},
        regex \in {NoRegex, Pattern({})},
        first \in LimitSpace, second \in LimitSpace,
        use_cache \in BOOLEAN, ctx \in {Ctx("c1", TRUE), Ctx("c2", FALSE)}}

NextArgs ==
    \/ \E a \in ArgSpace : clean_invoke(1, a)
    \/ delete_invocation_returns(1)
    \/ history_next(1)
    \/ delete_messages_returns(1)
    \/ message_delete_returns(1)
    \/ report_none_returns(1)
    \/ upload_log_returns(1)
    \/ send_log_message_returns(1)
    \/ add_reaction_returns(1)

SpecArgs == Init /\ [][NextArgs]_vars

\* ------------------------------------------------------------------ claims
InProgressSet == {s \in Sessions : InProgress(sess[s])}

\* the first await of the reporting, where the frame still holds the calls
FirstReportPcs == {"report_none", "upload_log"}

\* C1: at most one cleanup session is in progress (past the entry guard of
\* _clean_messages, not yet returned or raised) at any time.
C1_SingleFlight == Cardinality(InProgressSet) <= 1

\* C2: once the cancel command has cleared the flag while a session was
\* deleting, that session issues no further delete call.
C2_NoCallAfterCancel ==
    [][\A s \in Sessions :
          sess[s].cancelled = "deleting"
              => Len(sess'[s].calls) <= Len(sess[s].calls)]_vars

\* C3: whenever no session is in progress the flag `cleaning` is false,
\* however the sessions before ended, and a clean invocation with valid
\* arguments is accepted instead of rejected.
C3_FlagClearWhenNoSession ==
    InProgressSet = {} =>
        /\ cleaning = FALSE
        /\ \A a \in Requests \ {RequestInvalid} :
              InProgress(_clean_messages([f |-> IdleFrame, cleaning |-> cleaning], a).f)

\* C3 happens: a session has ended with an exception and none is running.
C3_Witness ==
    /\ InProgressSet = {}
    /\ \E s \in Sessions : sess[s].ended = "raised"

\* C4: a clean invocation that arrives while a session is active and the
\* flag is set starts no enumeration and leaves the flag set.
C4_RejectedChangesNothing ==
    \A s, t \in Sessions :
        (s # t /\ sess[s].pc = "idle" /\ InProgress(sess[t]) /\ cleaning)
            => \A a \in RequestsOf(s) :
                  LET r == _clean_messages(M(s), a) IN
                  /\ r.cleaning = TRUE
                  /\ ~InProgress(r.f)

\* The messages of the calls of f that were issued before the flag was
\* cleared, in the order of the calls
IssuedBeforeCancel(f) ==
    LET early(c) == ~c.after_cancel
        kept == SelectSeq(f.calls, early)
    IN Flatten([k \in 1..Len(kept) |-> kept[k].messages])

\* Those of them whose call succeeded
DeletedBeforeCancel(f) ==
    LET good(c) == ~c.after_cancel /\ c.result = "ok"
        kept == SelectSeq(f.calls, good)
    IN Flatten([k \in 1..Len(kept) |-> kept[k].messages])

\* C5: the list the Deleter returns holds only messages whose delete call
\* succeeded; a message whose call ended in NotFound is not in it.
C5_OnlyDeletedInResult ==
    \A s \in Sessions :
        sess[s].pc \in FirstReportPcs =>
            \A i \in 1..Len(sess[s].reported.messages) :
                \E k \in 1..Len(sess[s].calls) :
                    /\ sess[s].calls[k].result = "ok"
                    /\ sess[s].reported.messages[i] \in SeqToSet(sess[s].calls[k].messages)

\* C6: a session cancelled while deleting hands to the reporting exactly the
\* messages of the delete calls it issued before the flag was cleared, in
\* the order of enumeration (all of them, or those whose call succeeded:
\* the sentence can be read both ways, and both are accepted here).
C6_CancelledResultExact ==
    \A s \in Sessions :
        (sess[s].pc \in FirstReportPcs /\ sess[s].cancelled = "deleting")
            => \/ sess[s].reported.messages = IssuedBeforeCancel(sess[s])
               \/ sess[s].reported.messages = DeletedBeforeCancel(sess[s])

\* The calls of kind `kind` that f issued in channel ch, in order
CallsOf(f, kind, ch) ==
    LET here(c) == c.kind = kind /\ c.channel = ch IN SelectSeq(f.calls, here)

\* The messages of the calls q, in order
MessagesOf(q) == Flatten([k \in 1..Len(q) |-> q[k].messages])

\* C7: a session that is not cancelled and finds N messages in one channel,
\* none of them older than the threshold, issues ceil(N/100) bulk calls of
\* 1..100 messages each, which partition the messages in source order, and
\* no individual call.
C7_BulkBatches ==
    \A s \in Sessions :
        LET f == sess[s] IN
        (/\ f.pc \in FirstReportPcs
         /\ f.cancelled = "no"
         /\ Len(f.message_mappings) = 1
         /\ \A i \in 1..Len(f.ages) : ~f.ages[i].old)
            => LET messages == f.message_mappings[1].messages IN
               /\ Len(f.calls) = (Len(messages) + 99) \div 100
               /\ \A k \in 1..Len(f.calls) :
                     /\ f.calls[k].kind = "bulk"
                     /\ Len(f.calls[k].messages) \in 1..100
               /\ MessagesOf(f.calls) = messages

\* C7 happens: two full batches and a shorter last one have been deleted.
C7_Witness ==
    \E s \in Sessions :
        /\ sess[s].pc = "upload_log"
        /\ sess[s].cancelled = "no"
        /\ Len(sess[s].calls) = 3
        /\ Len(sess[s].calls[3].messages) \in 1..99

\* C8: in a session that is not cancelled, when the message at index k of a
\* channel's list is the first one classified older than the threshold, the
\* messages before k are deleted by bulk calls only, and the messages from k
\* to the end by one individual call each, in order, after every bulk call
\* of that channel.
C8_CutPoint ==
    \A s \in Sessions :
        LET f == sess[s] IN
        (f.pc \in FirstReportPcs /\ f.cancelled = "no") =>
            \A c \in 1..Len(f.message_mappings) :
                LET ch == f.message_mappings[c].channel
                    messages == f.message_mappings[c].messages
                    olds == {f.ages[i].index : i \in {j \in 1..Len(f.ages) :
                                f.ages[j].channel = ch /\ f.ages[j].old}}
                    bulk == CallsOf(f, "bulk", ch)
                    single == CallsOf(f, "single", ch)
                IN
                \A k \in olds :
                    /\ olds = {k}
                    /\ MessagesOf(bulk) = SubSeq(messages, 1, k - 1)
                    /\ Len(single) = Len(messages) - k + 1
                    /\ \A j \in 1..Len(single) : single[j].messages = <<messages[k + j - 1]>>
                    /\ \A i, j \in 1..Len(f.calls) :
                          (/\ f.calls[i].channel = ch /\ f.calls[i].kind = "bulk"
                           /\ f.calls[j].channel = ch /\ f.calls[j].kind = "single")
                              => i < j

\* C8 happens: a channel's first two messages went out in a bulk call and
\* its last two in individual calls.
C8_Witness ==
    \E s \in Sessions :
        LET f == sess[s] IN
        /\ f.pc = "upload_log"
        /\ f.cancelled = "no"
        /\ \E i \in 1..Len(f.ages) : f.ages[i].old /\ f.ages[i].index = 3
        /\ Len(CallsOf(f, "single", "c1")) = 2
        /\ Len(MessagesOf(CallsOf(f, "bulk", "c1"))) = 2

C10_CancelledHistoryEmpty ==
    \A s \in Sessions :
        sess[s].enum.seen = "history"
            => /\ sess[s].enum.empty
               /\ ~InProgress(sess[s])
               /\ sess[s].ended = "cancelled"
               /\ sess[s].calls = <<>>

\* C10 happens: the enumeration had matches when it met the cleared flag.
C10_Witness ==
    \E s \in Sessions :
        /\ sess[s].enum.seen = "history"
        /\ sess[s].enum.held > 0

\* The requests whose arguments _validate_input refuses
Refused(a) ==
    _validate_input(a.traverse, a.channels, a.bots_only, a.users,
                    a.first_limit, a.second_limit) # "ok"

\* C11: a clean invocation whose arguments fail the validation changes
\* nothing: the flag and every frame are as they were before it.
C11_InvalidNoSideEffect ==
    \A s \in Sessions :
        sess[s].pc = "idle" =>
            \A a \in {r \in RequestsOf(s) : Refused(r)} :
                /\ _clean_messages(M(s), a).cleaning = cleaning
                /\ _clean_messages(M(s), a).f = sess[s]

\* The messages the Deleter of frame f has deleted so far
DeletedSoFar(f) == f.deleted \o f.old_deleted

IsPrefix(p, q) == Len(p) <= Len(q) /\ SubSeq(q, 1, Len(p)) = p

\* C12: when a delete call of a session that has deleted messages fails
\* with an error other than NotFound, the session leaves the deleting for the
\* reporting, and what it reports holds the messages it had deleted.
C12_FailureKeepsDeleted ==
    [][\A s \in Sessions :
          (/\ sess[s].pc \in DeletingPcs
           /\ DeletedSoFar(sess[s]) # <<>>
           /\ sess'[s] # sess[s]
           /\ sess'[s].pc \notin DeletingPcs)
              => /\ sess'[s].pc \in FirstReportPcs
                 /\ IsPrefix(DeletedSoFar(sess[s]), sess'[s].reported.messages)]_vars

\* C18: the reporter uploads the log only for a list that is not empty, and
\* the notice that nothing matched is sent only for an empty one; the
\* mod-log message follows an uploaded log and nothing else.
C18_ReportIffDeleted ==
    \A s \in Sessions :
        /\ sess[s].pc = "upload_log"
              => sess[s].reported.done /\ sess[s].reported.messages # <<>>
        /\ sess[s].pc = "report_none"
              => sess[s].reported.done /\ sess[s].reported.messages = <<>>
        /\ sess[s].pc \in {"send_log_message", "add_reaction"}
              => sess[s].reported.done
        /\ sess[s].pc \in EnumeratingPcs \cup DeletingPcs
              => ~sess[s].reported.done

\* C18 happens: one session sends the notice for its empty list while
\* another uploads the log of the messages it deleted.
C18_Witness ==
    \E s, t \in Sessions :
        /\ sess[s].pc = "report_none" /\ sess[s].reported.done
        /\ sess[t].pc = "upload_log" /\ sess[t].reported.messages # <<>>

\* The awaits at which the frame still holds what _clean_messages resolved
FrameHolds(f) == f.pc \in EnumeratingPcs \cup DeletingPcs \cup FirstReportPcs

\* C13: no session is past the validation with bots-only and an author
\* list, with a second limit and no first one, with a message limit and a
\* channel scope (a list or "*"), or with two message limits of different
\* channels.
C13_NoInvalidFilter ==
    \A s \in Sessions :
        InProgress(sess[s]) =>
            LET a == sess[s].a
                isMessage(l) == l.kind = "message"
            IN
            /\ ~(a.bots_only /\ a.users # <<>>)
            /\ ~(a.second_limit.kind # "none" /\ a.first_limit.kind = "none")
            /\ ~((isMessage(a.first_limit) \/ isMessage(a.second_limit))
                 /\ a.channels.kind \in {"all", "list"})
            /\ ~(/\ isMessage(a.first_limit) /\ isMessage(a.second_limit)
                 /\ a.first_limit.channel # a.second_limit.channel)

\* C13 happens: a session with a message limit, a time limit and an author
\* list is enumerating.
C13_Witness ==
    \E s \in Sessions :
        /\ sess[s].pc = "history"
        /\ sess[s].a.first_limit.kind = "message"
        /\ sess[s].a.second_limit.kind = "time"
        /\ sess[s].a.users # <<>>

\* C14: whenever both limits are given, in either order and as messages or
\* as times, the frame, the range test of the predicate and the history
\* fetch hold the earlier time as the first (after) limit and the later as
\* the second (before) limit.
C14_SwapInvariant ==
    \A s \in Sessions :
        LET f == sess[s]
            a == f.a
            lo == IF a.first_limit.t <= a.second_limit.t
                  THEN a.first_limit.t ELSE a.second_limit.t
            hi == IF a.first_limit.t <= a.second_limit.t
                  THEN a.second_limit.t ELSE a.first_limit.t
        IN
        (FrameHolds(f) /\ a.first_limit.kind # "none" /\ a.second_limit.kind # "none")
            => /\ f.first_limit = TimeLimit(lo)
               /\ f.second_limit = TimeLimit(hi)
               /\ HistoryArgs(f).after = TimeLimit(lo)
               /\ HistoryArgs(f).before = TimeLimit(hi)
               /\ HistoryArgs(f).after.t <= HistoryArgs(f).before.t
               /\ \E i \in 1..Len(f.predicate) : f.predicate[i].test = "range"
               /\ \A i \in 1..Len(f.predicate) :
                     f.predicate[i].test = "range"
                         => f.predicate[i].first = lo /\ f.predicate[i].second = hi

\* C14 happens: the limits were given the later one first, one as a message
\* and one as a time.
C14_Witness ==
    \E s \in Sessions :
        /\ sess[s].pc = "history"
        /\ sess[s].a.first_limit.kind = "time"
        /\ sess[s].a.second_limit.kind = "message"
        /\ sess[s].a.first_limit.t > sess[s].a.second_limit.t

\* The messages the predicates are tried on
MessageSpace ==
    {Msg(ts, 0, ch, author, bot) :
        ts \in 0..(MaxClock + 1), ch \in Channels, author \in {"u1", "u2"},
        bot \in BOOLEAN}

\* C15: the predicate is the conjunction of exactly the sub-tests whose
\* criterion was given (bot authorship, author membership, pattern search,
\* time test), and it matches every message when none was given.
C15_PredicateIsAnd ==
    \A s \in Sessions :
        LET f == sess[s]
            a == f.a
            active == {c \in {"bots_only", "users", "regex", "time"} :
                          \/ c = "bots_only" /\ a.bots_only
                          \/ c = "users" /\ a.users # <<>>
                          \/ c = "regex" /\ a.regex.kind # "none"
                          \/ c = "time" /\ a.first_limit.kind # "none"}
        IN
        FrameHolds(f) =>
            /\ Len(f.predicate) = Cardinality(active)
            /\ \A message \in MessageSpace :
                  to_delete(f.predicate, message) =
                      (/\ "bots_only" \in active => message.bot
                       /\ "users" \in active => message.author \in SeqToSet(a.users)
                       /\ "regex" \in active => message.content \in a.regex.finds
                       /\ "time" \in active =>
                             IF f.second_limit.kind # "none"
                             THEN /\ f.first_limit.t <= message.created_at
                                  /\ message.created_at <= f.second_limit.t
                             ELSE message.created_at >= f.first_limit.t)
            /\ active = {} => \A message \in MessageSpace : to_delete(f.predicate, message)

\* C15 happens: a predicate of three sub-tests is in use.
C15_Witness ==
    \E s \in Sessions :
        /\ sess[s].pc = "history"
        /\ sess[s].a.bots_only
        /\ sess[s].a.regex.kind # "none"
        /\ sess[s].a.second_limit.kind # "none"
        /\ Len(sess[s].predicate) = 3

\* The time tests among the sub-tests of a predicate
TimeTests(predicate) ==
    LET timed(p) == p.test \in {"range", "after"} IN SelectSeq(predicate, timed)

C19_ScopeResolution ==
    \A s \in Sessions :
        LET f == sess[s]
            a == f.a
        IN
        FrameHolds(f) =>
            /\ a.channels.kind = "none" =>
                  /\ f.channels.kind = "list"
                  /\ f.channels.list =
                        << IF a.first_limit.kind = "message" THEN a.first_limit.channel
                           ELSE IF a.second_limit.kind = "message"
                           THEN a.second_limit.channel
                           ELSE a.ctx.channel >>
                  /\ f.pc = "history" => f.deletion_channels = f.channels.list
            /\ a.channels.kind # "none" => f.channels = a.channels
            /\ {f.first_limit.kind, f.second_limit.kind} \subseteq {"none", "time"}
            /\ {f.first_limit.t, f.second_limit.t} = {a.first_limit.t, a.second_limit.t}
            /\ \A i \in 1..Len(f.predicate) :
                  /\ f.predicate[i].test \in {"range", "after"}
                        => f.predicate[i].first = f.first_limit.t
                  /\ f.predicate[i].test = "range"
                        => f.predicate[i].second = f.second_limit.t

\* C19 happens: the scope is the channel of the second limit, a message of
\* another channel than the invoking one.
C19_Witness ==
    \E s \in Sessions :
        /\ sess[s].pc = "history"
        /\ sess[s].a.channels.kind = "none"
        /\ sess[s].a.first_limit.kind = "time"
        /\ sess[s].a.second_limit.kind = "message"
        /\ sess[s].a.second_limit.channel # sess[s].a.ctx.channel
        /\ sess[s].deletion_channels = <<sess[s].a.second_limit.channel>>

\* C17 as stated: is_older_than_14d answers true iff the creation time in
\* the identifier (id >> 22, in ms) is earlier than the clock reading of the
\* classification minus 14 days.  Both sides are in microseconds.
C17_OlderIffBeforeCutoff ==
    \A s \in Sessions :
        \A i \in 1..Len(sess[s].ages) :
            LET e == sess[s].ages[i] IN
            e.old <=> (e.id \div Pow2(22)) * 1000
                          < (e.at.ms - 1209600000) * 1000 + e.at.us

\* C17: is_older_than_14d answers true iff the creation time in the
\* identifier (id >> 22, in ms) is earlier than the clock reading of the
\* classification minus 14 days cut down to whole milliseconds, that is, iff
\* the message was created a whole millisecond or more before that cutoff;
\* the clock is read at each classification.
C17_OlderIffBeforeTruncatedCutoff ==
    \A s \in Sessions :
        \A i \in 1..Len(sess[s].ages) :
            LET e == sess[s].ages[i] IN
            e.old <=> (e.id \div Pow2(22) + 1) * 1000
                          <= (e.at.ms - 1209600000) * 1000 + e.at.us

\* C17 happens: one session classified two messages at two clock readings:
\* the first, created in the millisecond the cutoff falls in, as not too
\* old, and the second, after the clock advanced, as too old.
C17_Witness ==
    \E s \in Sessions :
        /\ Len(sess[s].ages) = 2
        /\ ~sess[s].ages[1].old
        /\ sess[s].ages[1].id \div Pow2(22) = sess[s].ages[1].at.ms - 1209600000
        /\ sess[s].ages[1].id % Pow2(22) = Pow2(22) - 1
        /\ sess[s].ages[1].at.us > 0
        /\ sess[s].ages[2].old
        /\ sess[s].ages[2].at # sess[s].ages[1].at

\* C20: no two activations of run_eval are inside send_func for the same
\* author at once, the evaluations of the re-run loop included.
C20_OneJobPerAuthor ==
    \A r, q \in Runs :
        (r # q /\ runs[r].pc = "send_func" /\ runs[q].pc = "send_func")
            => runs[r].author # runs[q].author

\* The contents of the containers an enumeration returned, in the order of
\* message_ids
ReturnedIds(got) == got.message_ids

\* The predicates the cache scan is tried with
PredicateSpace == {<<>>, <<[test |-> "bots_only"]>>, <<[test |-> "after", first |-> 2]>>}

\* C21: a cache scan that finds the flag cleared when it comes to a message
\* stops there and returns what it has accumulated from the messages before
\* it, and a scan never tests more than `traverse` cached messages; the
\* session of a scan that stopped so ends at line 406 without a delete call.
C21_CacheScanStops ==
    /\ \A traverse \in 0..(Len(cached_messages) + 1), flag \in BOOLEAN,
          predicates \in PredicateSpace :
          LET got == _get_messages_from_cache(traverse, predicates, flag)
              scanned == SubSeq(cached_messages, 1, got.scanned)
              matches(message) == to_delete(predicates, message)
              accumulated == SelectSeq(scanned, matches)
          IN
          /\ got.scanned <= traverse
          /\ got.scanned <= Len(cached_messages)
          /\ ReturnedIds(got) = [i \in 1..Len(accumulated) |-> accumulated[i].id]
          /\ MessagesOf(got.message_mappings) \in
                 {q \in [1..Len(accumulated) -> SeqToSet(accumulated)] :
                     SeqToSet(q) = SeqToSet(accumulated)}
          /\ (~flag /\ traverse > 0 /\ cached_messages # <<>>)
                 => got.seen = "cache" /\ got.scanned = 0
          /\ flag => got.seen = "-" /\ got.scanned = Min(traverse, Len(cached_messages))
    /\ \A s \in Sessions :
          sess[s].enum.seen = "cache"
              => /\ ~InProgress(sess[s])
                 /\ sess[s].ended = "cancelled"
                 /\ sess[s].calls = <<>>

\* C21 happens: the cache scan of a session met the cleared flag at the
\* first of the cached messages, which its predicate matches.
C21_Witness ==
    \E s \in Sessions :
        /\ sess[s].enum.seen = "cache"
        /\ sess[s].ended = "cancelled"
        /\ cached_messages # <<>>
        /\ cached_messages[1].bot

\* C22: the cancel command leaves the flag false; when a session is in
\* progress and the flag is set it clears it, and when no session is in
\* progress it changes nothing and its message is the one that says that no
\* cleaning is going on.
C22_CancelClearsFlag ==
    [][clean_cancel =>
          /\ cleaning' = FALSE
          /\ InProgressSet = {} =>
                /\ cleaning' = cleaning /\ sess' = sess
                /\ CancelBranch(cleaning).message = "There's no cleaning going on."
          /\ (InProgressSet # {} /\ cleaning) =>
                CancelBranch(cleaning).message = "Clean interrupted."]_vars

\* C22 happens: the cancel command has cleared the flag of a session that
\* is still suspended in a delete call.
C22_Witness ==
    \E s \in Sessions :
        /\ sess[s].cancelled = "deleting"
        /\ sess[s].pc \in DeletingPcs
        /\ cleaning = FALSE

\* The cache strategy is selected for the session of frame f
CacheSelected(f) == f.channels.kind = "all" /\ f.a.use_cache

\* The session in slot s is at the await of line 388 or not yet started
BeforeEnumeration(s) == sess[s].pc \in {"idle", "delete_invocation"}

\* C23: a session enumerates from the cache iff its scope is "*" and
\* use_cache is true, and goes to channel.history in every other case: over
\* the channels of its list, or for "*" over the text channels of the guild.
C23_StrategySelection ==
    [][\A s \in Sessions :
          /\ (BeforeEnumeration(s) /\ sess'[s].pc = "history")
                => /\ ~CacheSelected(sess'[s])
                   /\ sess'[s].hc = 1
                   /\ sess'[s].deletion_channels =
                         IF sess'[s].channels.kind = "all"
                         THEN GuildTextChannels ELSE sess'[s].channels.list
          /\ (BeforeEnumeration(s) /\ sess'[s].pc \in DeletingPcs \cup FirstReportPcs)
                => /\ CacheSelected(sess'[s])
                   /\ sess'[s].message_mappings =
                         _get_messages_from_cache(sess'[s].a.traverse,
                                                  sess'[s].predicate, TRUE).message_mappings
          /\ (/\ sess[s].pc = "delete_invocation" /\ sess'[s] # sess[s]
              /\ sess'[s].ended # "raised")
                => (sess'[s].pc = "history") = ~CacheSelected(sess[s])
          /\ sess[s].pc = "history"
                => /\ ~CacheSelected(sess[s])
                   /\ sess[s].hc \in 1..Len(sess[s].deletion_channels)]_vars

\* C23 happens: a session with the scope "*" and use_cache false is at the
\* history of the second text channel of the guild.
C23_Witness ==
    \E s \in Sessions :
        /\ sess[s].pc = "history"
        /\ sess[s].channels.kind = "all"
        /\ ~sess[s].a.use_cache
        /\ sess[s].hc = 2
        /\ sess[s].deletion_channels[2] = "c2"

\* C24: the flag is false when a session calls the reporter; no delete call
\* of the session is pending by then; no step of the reporting sets the
\* flag; and the flag is false after the reporter has raised.
C24_ReportAfterFlagCleared ==
    [][\A s \in Sessions :
          /\ (sess[s].pc \notin ReportingPcs /\ sess'[s].pc \in ReportingPcs)
                => /\ cleaning' = FALSE
                   /\ \A k \in 1..Len(sess'[s].calls) :
                         sess'[s].calls[k].result # "pending"
          /\ (sess[s].pc \in ReportingPcs /\ sess'[s] # sess[s])
                => (cleaning' => cleaning)
          /\ (/\ sess[s].pc \in ReportingPcs /\ sess'[s].pc = "idle"
              /\ sess'[s].ended = "raised")
                => cleaning' = FALSE]_vars

\* C24 happens: a session that deleted messages is suspended in the upload
\* of the log, with the flag false.
C24_Witness ==
    \E s \in Sessions :
        /\ sess[s].pc = "upload_log"
        /\ cleaning = FALSE
        /\ \E k \in 1..Len(sess[s].calls) : sess[s].calls[k].result = "ok"

\* The identifiers that frame f classified in channel ch with the answer old
ClassifiedIds(f, ch, old) ==
    {f.ages[j].id : j \in {i \in 1..Len(f.ages) :
                              f.ages[i].channel = ch /\ f.ages[i].old = old}}

\* C25: every bulk call holds between 1 and 100 messages, all of the
\* channel the call goes to, each of which is_older_than_14d has answered
\* false for in this session and none of which it has answered true for.
C25_BulkOnlyYoung ==
    \A s \in Sessions :
        \A k \in 1..Len(sess[s].calls) :
            LET c == sess[s].calls[k]
                ids == {c.messages[i].id : i \in 1..Len(c.messages)}
            IN
            c.kind = "bulk" =>
                /\ Len(c.messages) \in 1..100
                /\ {c.messages[i].channel : i \in 1..Len(c.messages)} = {c.channel}
                /\ Cardinality(ids) = Len(c.messages)
                /\ ids \subseteq ClassifiedIds(sess[s], c.channel, FALSE)
                /\ ids \cap ClassifiedIds(sess[s], c.channel, TRUE) = {}

\* C25 happens: a session has issued a bulk call of 100 messages and a
\* shorter one in a channel where it classified a message as too old.
C25_Witness ==
    \E s \in Sessions :
        /\ Len(sess[s].calls) >= 2
        /\ sess[s].calls[1].kind = "bulk"
        /\ Len(sess[s].calls[1].messages) = 100
        /\ sess[s].calls[2].kind = "bulk"
        /\ Len(sess[s].calls[2].messages) < 100
        /\ ClassifiedIds(sess[s], sess[s].calls[2].channel, TRUE) # {}

\* The messages of every delete call of frame f, in the order of the calls
PassedToDelete(f) == MessagesOf(f.calls)

\* The messages the enumeration of frame f matched
Matched(f) ==
    SeqToSet(Flatten([c \in 1..Len(f.message_mappings) |->
                         f.message_mappings[c].messages]))

\* C26: every message a session passes to a delete call is one its
\* enumeration matched, and no message is passed to a delete call twice,
\* in one call or in two.
C26_DeleteOnlyMatchedOnce ==
    \A s \in Sessions :
        LET f == sess[s]
            passed == PassedToDelete(f)
        IN
        f.pc \in DeletingPcs \cup FirstReportPcs =>
            /\ SeqToSet(passed) \subseteq Matched(f)
            /\ \A i, j \in 1..Len(passed) : passed[i].id = passed[j].id => i = j

\* The calls that frame f issued in channel ch, in order
CallsIn(f, ch) == LET here(c) == c.channel = ch IN SelectSeq(f.calls, here)

\* C27: a session that no cancel command interrupted and that no call
\* failed for other than with NotFound has, when it reports, passed every
\* matched message of every channel of the mapping to exactly one delete
\* call.
C27_Complete ==
    \A s \in Sessions :
        LET f == sess[s] IN
        (f.pc \in FirstReportPcs /\ f.cancelled = "no") =>
            /\ \A k \in 1..Len(f.calls) : f.calls[k].result \in {"ok", "NotFound"}
            /\ \A c \in 1..Len(f.message_mappings) :
                  MessagesOf(CallsIn(f, f.message_mappings[c].channel))
                      = f.message_mappings[c].messages

\* Frame f has matched messages that it passed to no delete call
LeftUndeleted(f) ==
    \E c \in 1..Len(f.message_mappings) :
        MessagesOf(CallsIn(f, f.message_mappings[c].channel))
            # f.message_mappings[c].messages

\* C28: a session leaves the deleting for the reporting with matched
\* messages left, or returns from line 406, only when the cancel command
\* cleared the flag while it was enumerating or deleting (a session that
\* one of its own calls failed for raises instead).
C28_StoppedOnlyByCancel ==
    [][\A s \in Sessions :
          /\ (/\ sess[s].pc \in EnumeratingPcs \cup DeletingPcs
              /\ sess'[s].pc \in FirstReportPcs
              /\ LeftUndeleted(sess'[s]))
                => sess[s].cancelled # "no"
          /\ (/\ sess[s].pc \in EnumeratingPcs
              /\ sess'[s].pc = "idle"
              /\ sess'[s].ended = "cancelled")
                => sess[s].cancelled # "no"]_vars

\* Every session that is in progress ends
EverySessionEnds ==
    \A s \in Sessions : InProgress(sess[s]) ~> ~InProgress(sess[s])

\* The external calls a session at pc still makes at most when no further
\* delete call follows
CallsLeft(pc) ==
    CASE pc = "upload_log" -> 3
      [] pc = "send_log_message" -> 2
      [] pc \in {"add_reaction", "report_none"} -> 1
      [] OTHER -> 0

\* C29 as stated: every session in progress ends, and the session the
\* cancel command interrupted ends when the call it was suspended in
\* returns.
C29_EndsAfterCallInFlight ==
    /\ EverySessionEnds
    /\ [][\A s \in Sessions :
            (/\ sess[s].cancelled # "no"
             /\ sess[s].pc \in EnumeratingPcs \cup DeletingPcs
             /\ ~cleaning
             /\ sess'[s] # sess[s])
                => ~InProgress(sess'[s])]_vars

\* C29: every session in progress ends; a session that is resumed with
\* the flag cleared issues no further delete call: from a delete call it
\* goes to the reporting (or raises), from history it returns at line 406
\* when a message is yielded or the last channel is exhausted and goes to
\* the history of the next channel otherwise, and from the deletion of the
\* invocation it returns at line 406 or goes to the history of the first
\* channel; and the reporting ends after three calls at most.
C29_EndsAfterReporting ==
    /\ EverySessionEnds
    /\ [][\A s \in Sessions :
            /\ (InProgress(sess[s]) /\ ~cleaning /\ sess'[s] # sess[s])
                  => /\ Len(sess'[s].calls) <= Len(sess[s].calls)
                     /\ sess[s].pc \in DeletingPcs
                           => \/ sess'[s].pc \in FirstReportPcs
                              \/ sess'[s].pc = "idle" /\ sess'[s].ended = "raised"
                     /\ sess[s].pc = "history"
                           => \/ sess'[s].pc = "idle"
                              \/ /\ sess'[s].pc = "history"
                                 /\ sess'[s].hc = sess[s].hc + 1
                     /\ sess[s].pc = "delete_invocation"
                           => \/ sess'[s].pc = "idle"
                              \/ sess'[s].pc = "history" /\ sess'[s].hc = 1
            /\ (sess[s].pc \in ReportingPcs /\ sess'[s] # sess[s])
                  => CallsLeft(sess'[s].pc) < CallsLeft(sess[s].pc)]_vars

\* C29 happens: a session the cancel command interrupted in a delete call
\* is in the reporting, which it entered with the flag cleared, and has
\* left matched messages undeleted.
C29_Witness ==
    \E s \in Sessions :
        /\ sess[s].cancelled = "deleting"
        /\ sess[s].pc = "upload_log"
        /\ ~cleaning
        /\ LeftUndeleted(sess[s])

\* The authors with an activation of run_eval inside send_func
InFlight == {runs[r].author : r \in {q \in Runs : runs[q].pc = "send_func"}}

\* C30: an author has an entry in jobs exactly while an evaluation of that
\* author is inside send_func; in particular the entry is there when the
\* finally clause of line 376 deletes it.
C30_JobIffInFlight == jobs = InFlight

============================================================================
